---------------------------- MODULE Spec2Model ----------------------------
(***************************************************************************)
(* A model of src/picamgui_ver_1.0.py: the CameraGUI window, the camera    *)
(* object it drives (picamera2's Picamera2), its two QTimers, the files it *)
(* writes, and the Qt event loop that runs its handlers.                   *)
(*                                                                         *)
(* The program is single-threaded.  A handler runs without interruption    *)
(* until it returns or until it re-enters the event loop, which it does in *)
(* three places: QCoreApplication.processEvents() (every pending event is  *)
(* delivered, user input included), QFileDialog.getSaveFileName() and      *)
(* QMessageBox.critical() (modal: the main window receives no input, the   *)
(* timers keep firing).  The handlers that have re-entered the loop and    *)
(* not yet returned are the frames of `stack`, innermost first.  One       *)
(* action of the model is one such uninterrupted run of code.              *)
(***************************************************************************)
EXTENDS Integers, Sequences, FiniteSets, TLC

VARIABLES
    Picamera2,                  \* "None" when the import at lines 16-25 failed, else "class"
    picam,                      \* self.picam: "None" or "Picamera2" (an object)
    dev,                        \* the state of the object self.picam refers to
    preview_timer,              \* self.preview_timer.isActive()
    blink_timer,                \* self.blink_timer.isActive()
    is_preview_paused,          \* self.is_preview_paused
    pause_btn,                  \* self.pause_btn.text()
    is_recording,               \* self.is_recording
    start_record_btn,           \* self.start_record_btn.isEnabled()
    stop_record_btn,            \* self.stop_record_btn.isEnabled()
    record_indicator,           \* self.record_indicator.isVisible()
    capture_overlay,            \* self.capture_overlay.isVisible()
    current_preview_resolution, \* self.current_preview_resolution
    preview_res_combo,          \* self.preview_res_combo.currentIndex()
    applied_crop_rect,          \* self.applied_crop_rect
    temp_drawn_rect,            \* self.temp_drawn_rect
    crop_apply_btn,             \* self.crop_apply_btn.isEnabled()
    current_frame,              \* self.current_frame: "None" or "frame"
    fs,                         \* the paths that exist on disk
    app,                        \* "running", "closed" (closeEvent accepted) or "crashed"
    stack,                      \* the handlers suspended in a nested event loop
    shown,                      \* the messages the last step of a command showed
    configured_on_started,      \* history: the last step called configure() on a started camera
    commands_left,              \* the commands the user may still give (MaxCommands)
    faults_left,                \* the calls that may still raise (MaxFaults)
    mag_rect,                   \* self.mag_rect, a QRect
    is_mag_dragging,            \* self.is_mag_dragging
    drag_offset,                \* self.drag_offset: None or a QPoint
    is_dragging,                \* self.is_dragging
    drag_start,                 \* self.drag_start: None or a QPoint
    magnifier_toggle,           \* self.magnifier_toggle.isChecked()
    buttons,                    \* the mouse buttons held down over the preview
    rotation,                   \* self.rotation
    rotation_steps,             \* history: the sum of the angle changes asked for
    focus_combo,                \* self.focus_combo.currentIndex()
    autofocus_btn,              \* self.autofocus_btn.isVisible()
    manual_focus,               \* the widgets of self.manual_focus_layout are visible
    lens_slider,                \* self.lens_slider.value()
    lens_position,              \* the last LensPosition pushed to the camera, None if none
    img,                        \* the part of the frame update_preview last drew, None if none
    img_k,                      \* the quarter turns of the frame that img was taken from
    img_shape                   \* img.shape[:2] of the array drawn, <<rows, columns>>, None if none

vars == <<Picamera2, picam, dev, preview_timer, blink_timer, is_preview_paused,
          pause_btn, is_recording, start_record_btn, stop_record_btn,
          record_indicator, capture_overlay, current_preview_resolution,
          preview_res_combo, applied_crop_rect, temp_drawn_rect, crop_apply_btn,
          current_frame, fs, app, stack, shown, configured_on_started,
          commands_left, faults_left, mag_rect, is_mag_dragging, drag_offset,
          is_dragging, drag_start, magnifier_toggle, buttons, rotation,
          rotation_steps, focus_combo, autofocus_btn, manual_focus, lens_slider,
          lens_position, img, img_k, img_shape>>

----------------------------------------------------------------------------
(* Bounds of the model. *)

\* Commands the user gives in one run of the program (closing it apart).
MaxCommands == 4
\* Handlers suspended in nested event loops at one time.
MaxDepth == 2
\* Library or system calls that raise in one run of the program.
MaxFaults == 1

----------------------------------------------------------------------------
(* Constants of the program. *)

preview_resolutions == << <<640, 480>>, <<1280, 720>>, <<1920, 1080>> >>
capture_formats == <<"jpeg", "png", "tiff", "dng">>
temp_video_path == "/tmp/temp_video.h264"
temp_path(capture_format) == "/tmp/temp_capture." \o capture_format

\* The formats the model captures in: png and tiff run the same lines as jpeg
\* (line 618), dng runs lines 610-616.
Formats == {"jpeg", "dng"}

\* What the user can answer in a save dialog: "" is Cancel.
VideoFilenames == {"", "~/video.mp4"}
ImageFilenames == {"", "~/capture.img"}

\* The calls that may raise, by call site.
Sites == {"i_stop", "i_close", "i_open", "i_configure", "i_start", "i_set_controls",
          "c_stop", "c_configure", "c_start", "c_capture_file", "c_rename",
          "r_stop", "r_configure", "r_start_recording",
          "s_stop_recording",
          "x_stop_recording", "x_stop", "x_close",
          "u_capture_array",
          "f_set_controls", "f_capture_metadata", "l_set_controls", "t_set_controls"}
FaultSets(sites) == {F \in SUBSET sites : Cardinality(F) <= faults_left}

----------------------------------------------------------------------------
(* Qt's integer geometry.  A QPoint is [x, y]; a QRect keeps its left,    *)
(* top, right and bottom pixels, all four inside the rectangle, so that    *)
(* width() is x2 - x1 + 1.                                                 *)

\* self.lens_slider.setRange(0, 1000)
lens_slider_maximum == 1000
\* self.preview_label.setFixedSize(800, 600)
preview_label_width == 800
preview_label_height == 600
\* None, where the other values are points or rectangles.
None == [isNone |-> TRUE]
QPoint(x, y) == [x |-> x, y |-> y]
\* QRect(x, y, w, h)
QRect(x, y, w, h) == [x1 |-> x, y1 |-> y, x2 |-> x + w - 1, y2 |-> y + h - 1]
\* QRect(topLeft, bottomRight)
QRectOf(p, q) == [x1 |-> p.x, y1 |-> p.y, x2 |-> q.x, y2 |-> q.y]
width(r) == r.x2 - r.x1 + 1
height(r) == r.y2 - r.y1 + 1
topLeft(r) == QPoint(r.x1, r.y1)
\* QRect.normalized() of Qt 5: the sides are swapped where the extent is negative.
normalized(r) ==
    [x1 |-> IF r.x2 < r.x1 - 1 THEN r.x2 ELSE r.x1,
     x2 |-> IF r.x2 < r.x1 - 1 THEN r.x1 ELSE r.x2,
     y1 |-> IF r.y2 < r.y1 - 1 THEN r.y2 ELSE r.y1,
     y2 |-> IF r.y2 < r.y1 - 1 THEN r.y1 ELSE r.y2]
\* QRect.contains(QPoint): the edges are inside.
contains(r, p) == r.x1 <= p.x /\ p.x <= r.x2 /\ r.y1 <= p.y /\ p.y <= r.y2
\* QRect.moveTopLeft(p), QRect.moveTo(x, y): the size is kept.
moveTopLeft(r, p) ==
    [x1 |-> p.x, y1 |-> p.y, x2 |-> p.x + (r.x2 - r.x1), y2 |-> p.y + (r.y2 - r.y1)]
\* bool(QRect) is isValid(), bool(QPoint) is not isNull(), bool(None) is False.
QRectTruth(r) == IF r = None THEN FALSE ELSE r.x1 <= r.x2 /\ r.y1 <= r.y2
QPointTruth(p) == p # None /\ p # QPoint(0, 0)

----------------------------------------------------------------------------
(* Exceptions and messages. `mentions` is the set of paths that str(e), or *)
(* the text of a message, contains.                                        *)

NoExc == [type |-> "none", mentions |-> {}]
RuntimeError == [type |-> "RuntimeError", mentions |-> {}]
FileNotFoundError(path) == [type |-> "FileNotFoundError", mentions |-> {path}]
OSError(path) == [type |-> "OSError", mentions |-> {path}]
\* str(CalledProcessError) is "Command '[...]' returned non-zero exit status n."
CalledProcessError(cmd) ==
    [type |-> "CalledProcessError", mentions |-> {cmd[i] : i \in 1..Len(cmd)}]

Ok(s) == s.exc = NoExc
Raise(s, e) == [s EXCEPT !.exc = e]
Catch(s) == [s EXCEPT !.exc = NoExc]
\* The next statement of a block runs only if no exception is propagating.
Try(s, Op(_)) == IF Ok(s) THEN Op(s) ELSE s
Fails(s, site) == site \in s.faults
\* The call at a site of s.faults raises.
Fault(s, e) == [s EXCEPT !.exc = e, !.faults_left = @ - 1]

showMessage(s, text, mentions) ==
    [s EXCEPT !.shown = @ \cup {[text |-> text, mentions |-> mentions]}]

----------------------------------------------------------------------------
(* The running state as one record, so that a handler's statements compose. *)
(* exc, faults, ret and mbox are not state: the exception propagating, the  *)
(* calls that raise in this run, init_camera's result, and whether          *)
(* init_camera is showing its message box.                                  *)

Cur(F) ==
    [Picamera2 |-> Picamera2, picam |-> picam, dev |-> dev,
     preview_timer |-> preview_timer, blink_timer |-> blink_timer,
     is_preview_paused |-> is_preview_paused, pause_btn |-> pause_btn,
     is_recording |-> is_recording, start_record_btn |-> start_record_btn,
     stop_record_btn |-> stop_record_btn, record_indicator |-> record_indicator,
     capture_overlay |-> capture_overlay,
     current_preview_resolution |-> current_preview_resolution,
     preview_res_combo |-> preview_res_combo,
     applied_crop_rect |-> applied_crop_rect, temp_drawn_rect |-> temp_drawn_rect,
     crop_apply_btn |-> crop_apply_btn, current_frame |-> current_frame,
     fs |-> fs, app |-> app, stack |-> stack,
     shown |-> {}, configured_on_started |-> FALSE,
     commands_left |-> commands_left, faults_left |-> faults_left,
     mag_rect |-> mag_rect, is_mag_dragging |-> is_mag_dragging,
     drag_offset |-> drag_offset, is_dragging |-> is_dragging,
     drag_start |-> drag_start, magnifier_toggle |-> magnifier_toggle,
     buttons |-> buttons, rotation |-> rotation, rotation_steps |-> rotation_steps,
     focus_combo |-> focus_combo, autofocus_btn |-> autofocus_btn,
     manual_focus |-> manual_focus, lens_slider |-> lens_slider,
     lens_position |-> lens_position, img |-> img, img_k |-> img_k,
     img_shape |-> img_shape,
     exc |-> NoExc, faults |-> F, ret |-> TRUE, mbox |-> FALSE]

\* The state in which a command of the user starts.
Command(F) == [Cur(F) EXCEPT !.commands_left = @ - 1]
\* The state in which a timer's handler starts: `shown` keeps the last command's messages.
Timeout(F) == [Cur(F) EXCEPT !.shown = shown, !.configured_on_started = configured_on_started]

Commit(s) ==
    /\ Picamera2' = s.Picamera2
    /\ picam' = s.picam
    /\ dev' = s.dev
    /\ preview_timer' = s.preview_timer
    /\ blink_timer' = s.blink_timer
    /\ is_preview_paused' = s.is_preview_paused
    /\ pause_btn' = s.pause_btn
    /\ is_recording' = s.is_recording
    /\ start_record_btn' = s.start_record_btn
    /\ stop_record_btn' = s.stop_record_btn
    /\ record_indicator' = s.record_indicator
    /\ capture_overlay' = s.capture_overlay
    /\ current_preview_resolution' = s.current_preview_resolution
    /\ preview_res_combo' = s.preview_res_combo
    /\ applied_crop_rect' = s.applied_crop_rect
    /\ temp_drawn_rect' = s.temp_drawn_rect
    /\ crop_apply_btn' = s.crop_apply_btn
    /\ current_frame' = s.current_frame
    /\ fs' = s.fs
    /\ app' = s.app
    /\ stack' = s.stack
    /\ shown' = s.shown
    /\ configured_on_started' = s.configured_on_started
    /\ commands_left' = s.commands_left
    /\ faults_left' = s.faults_left
    /\ mag_rect' = s.mag_rect
    /\ is_mag_dragging' = s.is_mag_dragging
    /\ drag_offset' = s.drag_offset
    /\ is_dragging' = s.is_dragging
    /\ drag_start' = s.drag_start
    /\ magnifier_toggle' = s.magnifier_toggle
    /\ buttons' = s.buttons
    /\ rotation' = s.rotation
    /\ rotation_steps' = s.rotation_steps
    /\ focus_combo' = s.focus_combo
    /\ autofocus_btn' = s.autofocus_btn
    /\ manual_focus' = s.manual_focus
    /\ lens_slider' = s.lens_slider
    /\ lens_position' = s.lens_position
    /\ img' = s.img
    /\ img_k' = s.img_k
    /\ img_shape' = s.img_shape

----------------------------------------------------------------------------
(* The camera object: what the program's calls do to a Picamera2.          *)

NoDev == [open |-> FALSE, cfg |-> "none", started |-> FALSE, enc |-> FALSE, af |-> "none"]

\* self.picam = Picamera2(): the attribute is assigned only if the constructor returns.
Picamera2_new(s, site) ==
    IF Fails(s, site) THEN Fault(s, RuntimeError)
    ELSE [s EXCEPT !.picam = "Picamera2", !.dev = [NoDev EXCEPT !.open = TRUE]]

\* configure() refuses a camera that is running.
picam_configure(s, site, cfg) ==
    IF s.dev.started
    THEN Raise([s EXCEPT !.configured_on_started = TRUE], RuntimeError)
    ELSE IF Fails(s, site) THEN Fault(s, RuntimeError)
    ELSE IF ~s.dev.open THEN Raise(s, RuntimeError)
    ELSE [s EXCEPT !.dev.cfg = cfg]

picam_start(s, site) ==
    IF Fails(s, site) THEN Fault(s, RuntimeError)
    ELSE IF ~s.dev.open \/ s.dev.cfg = "none" THEN Raise(s, RuntimeError)
    ELSE [s EXCEPT !.dev.started = TRUE]

picam_stop(s, site) ==
    IF Fails(s, site) THEN Fault(s, RuntimeError)
    ELSE [s EXCEPT !.dev.started = FALSE]

picam_close(s, site) ==
    IF Fails(s, site) THEN Fault(s, RuntimeError)
    ELSE [s EXCEPT !.dev.open = FALSE, !.dev.started = FALSE]

picam_set_controls(s, site, af) ==
    IF Fails(s, site) THEN Fault(s, RuntimeError)
    ELSE IF ~s.dev.open THEN Raise(s, RuntimeError)
    ELSE [s EXCEPT !.dev.af = af]

\* set_controls({"LensPosition": position})
picam_set_lens_position(s, site, position) ==
    IF Fails(s, site) THEN Fault(s, RuntimeError)
    ELSE IF ~s.dev.open THEN Raise(s, RuntimeError)
    ELSE [s EXCEPT !.lens_position = position]

\* set_controls({"AfTrigger": Start})
picam_af_trigger(s, site) ==
    IF Fails(s, site) THEN Fault(s, RuntimeError)
    ELSE IF ~s.dev.open THEN Raise(s, RuntimeError)
    ELSE s

\* start_recording(encoder, path): the encoder opens its output file, the camera starts.
picam_start_recording(s, site, path) ==
    IF Fails(s, site) THEN Fault(s, RuntimeError)
    ELSE IF ~s.dev.open \/ s.dev.cfg = "none" THEN Raise(s, RuntimeError)
    ELSE [s EXCEPT !.dev.enc = TRUE, !.dev.started = TRUE, !.fs = @ \cup {path}]

\* stop_recording(): stop() and then stop_encoder().
picam_stop_recording(s, site) ==
    IF Fails(s, site) THEN Fault(s, RuntimeError)
    ELSE [s EXCEPT !.dev.started = FALSE, !.dev.enc = FALSE]

picam_capture_file(s, site, path) ==
    IF Fails(s, site) THEN Fault(s, RuntimeError)
    ELSE IF ~s.dev.started THEN Raise(s, RuntimeError)
    ELSE [s EXCEPT !.fs = @ \cup {path}]

picam_capture_array(s, site) ==
    IF Fails(s, site) \/ ~s.dev.started THEN Raise(s, RuntimeError)
    ELSE [s EXCEPT !.current_frame = "frame"]

----------------------------------------------------------------------------
(* The file system calls.                                                  *)

os_remove(s, path) ==
    IF path \in s.fs THEN [s EXCEPT !.fs = @ \ {path}]
    ELSE Raise(s, FileNotFoundError(path))

os_rename(s, site, src, dst) ==
    IF src \notin s.fs THEN Raise(s, FileNotFoundError(src))
    ELSE IF Fails(s, site) THEN Fault(s, OSError(src))
    ELSE [s EXCEPT !.fs = (@ \ {src}) \cup {dst}]

\* subprocess.run(["ffmpeg", "-i", temp, "-c", "copy", filename], check=True).
\* outcome: "ok" (exit status 0), "exit" (non-zero exit status), "oserror"
\* (ffmpeg could not be run).  ffmpeg exits non-zero when its input is missing.
ffmpeg_cmd(filename) == <<"ffmpeg", "-i", temp_video_path, "-c", "copy", filename>>
subprocess_run(s, outcome, filename) ==
    IF outcome = "oserror" THEN Raise(s, FileNotFoundError("ffmpeg"))
    ELSE IF outcome = "exit" \/ temp_video_path \notin s.fs
    THEN Raise(s, CalledProcessError(ffmpeg_cmd(filename)))
    ELSE [s EXCEPT !.fs = @ \cup {filename}]

----------------------------------------------------------------------------
(* Suspended handlers.  A frame keeps the handler's name, where it waits   *)
(* (pc: "pe" in processEvents, "dlg" in the save dialog, "mb" in           *)
(* init_camera's message box) and its local variables.                     *)

Frame(h, was_preview_active, capture_format) ==
    [h |-> h, pc |-> "-", was_preview_active |-> was_preview_active,
     capture_format |-> capture_format]
Suspend(s, fr, pc) == [s EXCEPT !.stack = <<[fr EXCEPT !.pc = pc]>> \o @]

\* An exception that leaves a slot: PyQt5 aborts the process.
Crash(s) ==
    [Catch(s) EXCEPT !.app = "crashed", !.stack = <<>>,
                     !.preview_timer = FALSE, !.blink_timer = FALSE]

----------------------------------------------------------------------------
(* init_camera, start_preview, clear_crop.                                 *)

\* QMessageBox.critical: modal, returns when the user dismisses it.
critical(s, text, mentions) == [showMessage(s, text, mentions) EXCEPT !.mbox = TRUE]

\* Lines 360-396, up to the message box of a failure; ret is the result.
init_camera(s) ==
    IF s.Picamera2 = "None"
    THEN [critical(s, "Picamera2 not available", {}) EXCEPT !.ret = FALSE]
    ELSE
      LET s1 == IF s.picam # "None"
                THEN Catch(Try(picam_stop(s, "i_stop"),
                               LAMBDA t: picam_close(t, "i_close")))
                ELSE s
          s2 == Picamera2_new(s1, "i_open")
          s3 == Try(s2, LAMBDA t: picam_configure(t, "i_configure", "preview"))
          s4 == Try(s3, LAMBDA t: picam_start(t, "i_start"))
          s5 == Try(s4, LAMBDA t: picam_set_controls(t, "i_set_controls", "Continuous"))
      IN  IF Ok(s5)
          THEN [showMessage(s5, "Camera initialized with preview stream", {})
                  EXCEPT !.ret = TRUE]
          ELSE [critical(Catch(s5), "Failed to initialize camera", s5.exc.mentions)
                  EXCEPT !.ret = FALSE]

\* Lines 397-398 (after the message box of the except branch), or line 365.
init_camera_failed(s) ==
    IF s.Picamera2 = "None" THEN [s EXCEPT !.ret = FALSE]
    ELSE [showMessage(s, "Camera initialization failed", {}) EXCEPT !.ret = FALSE]

start_preview(s) == [s EXCEPT !.preview_timer = TRUE]

clear_crop(s) ==
    showMessage([s EXCEPT !.applied_crop_rect = None, !.temp_drawn_rect = None,
                          !.crop_apply_btn = FALSE],
                "Crop cleared. Full view restored.", {})

----------------------------------------------------------------------------
(* What each caller of init_camera does once init_camera has returned.     *)

\* capture_image, lines 645-648.
capture_image_resume_preview(s, fr) ==
    IF fr.was_preview_active THEN start_preview(s)
    ELSE [s EXCEPT !.pause_btn = "Resume Preview"]

\* start_recording, line 698.
start_recording_resume_preview(s, fr) == start_preview(s)

\* stop_recording, line 753.
stop_recording_resume_preview(s, fr) == start_preview(s)

\* on_preview_resolution_change, lines 432-440.
ItemIndex(resolution) ==
    CHOOSE i \in 0..2 : preview_resolutions[i + 1] = resolution
on_preview_resolution_change_done(s, fr) ==
    IF s.ret
    THEN clear_crop(IF ~s.is_preview_paused THEN start_preview(s) ELSE s)
    ELSE [s EXCEPT !.preview_res_combo = ItemIndex(s.current_preview_resolution)]

after_init_camera(s, fr) ==
    CASE fr.h = "capture_image" -> capture_image_resume_preview(s, fr)
      [] fr.h = "start_recording" -> start_recording_resume_preview(s, fr)
      [] fr.h = "stop_recording" -> stop_recording_resume_preview(s, fr)
      [] fr.h = "on_preview_resolution_change" -> on_preview_resolution_change_done(s, fr)

\* self.init_camera() and the rest of the caller; the caller waits in the
\* message box if init_camera shows one.
call_init_camera(s, fr) ==
    LET r == init_camera(s)
    IN  IF r.mbox THEN Suspend([r EXCEPT !.mbox = FALSE], fr, "mb")
        ELSE after_init_camera(r, fr)

----------------------------------------------------------------------------
(* capture_image, lines 579-648.                                           *)

capture_image_except(s, fr) ==
    showMessage(Catch(s), "Capture error: Failed to capture", s.exc.mentions)

capture_image_finally(s, fr) ==
    call_init_camera([s EXCEPT !.capture_overlay = FALSE], fr)

\* Lines 581-596: to processEvents().  picam.stop() is outside the try block.
capture_image_enter(s, capture_format) ==
    IF s.picam = "None" THEN showMessage(s, "Camera not initialized", {})
    ELSE
      LET fr == Frame("capture_image", s.preview_timer, capture_format)
          s1 == picam_stop([s EXCEPT !.preview_timer = FALSE], "c_stop")
      IN  IF ~Ok(s1) THEN Crash(s1)
          ELSE Suspend(showMessage([s1 EXCEPT !.capture_overlay = TRUE],
                                   "Capturing picture...", {}), fr, "pe")

\* Lines 609-618: the DNG path configures and starts a second time.
capture_image_capture(s, fr) ==
    LET temp == temp_path(fr.capture_format)
    IN  IF fr.capture_format = "dng"
        THEN LET s1 == picam_configure(s, "c_configure", "raw")
                 s2 == Try(s1, LAMBDA t: picam_start(t, "c_start"))
             IN  Try(s2, LAMBDA t: picam_capture_file(t, "c_capture_file", temp))
        ELSE picam_capture_file(s, "c_capture_file", temp)

\* Lines 598-623: from processEvents() to the save dialog.
capture_image_configure(s, fr) ==
    LET s1 == picam_configure(s, "c_configure", "still")
        s2 == Try(s1, LAMBDA t: picam_start(t, "c_start"))
        s3 == Try(s2, LAMBDA t: capture_image_capture(t, fr))
        s4 == Try(s3, LAMBDA t: showMessage(t, "Picture captured. Prompting to save...", {}))
    IN  IF Ok(s4) THEN Suspend(s4, fr, "dlg")
        ELSE capture_image_finally(capture_image_except(s4, fr), fr)

\* Lines 629-648: from the save dialog's answer to the end.
capture_image_save(s, fr, filename) ==
    LET temp == temp_path(fr.capture_format)
        s1 == IF filename # ""
              THEN Try(os_rename(s, "c_rename", temp, filename),
                       LAMBDA t: showMessage(t, "saved", {filename}))
              ELSE os_remove(showMessage(s, "Picture discarded.", {}), temp)
    IN  capture_image_finally(IF Ok(s1) THEN s1 ELSE capture_image_except(s1, fr), fr)

----------------------------------------------------------------------------
(* start_recording, lines 650-698.                                         *)

start_recording_except(s, fr) ==
    LET s1 == showMessage(Catch(s), "Recording error: Failed to start recording",
                          s.exc.mentions)
    IN  call_init_camera([s1 EXCEPT !.is_recording = FALSE,
                                    !.start_record_btn = TRUE,
                                    !.stop_record_btn = FALSE,
                                    !.record_indicator = FALSE], fr)

\* A start that does not look at is_recording.
start_recording_enter_unguarded(s) ==
    IF s.picam = "None" THEN showMessage(s, "Camera not initialized", {})
    ELSE
      LET fr == Frame("start_recording", FALSE, "-")
          s1 == picam_stop([s EXCEPT !.preview_timer = FALSE], "r_stop")
      IN  IF Ok(s1) THEN Suspend(s1, fr, "pe") ELSE start_recording_except(s1, fr)

\* Lines 655-671: to processEvents().
start_recording_enter(s) ==
    IF s.is_recording THEN s
    ELSE IF s.picam = "None" THEN showMessage(s, "Camera not initialized", {})
    ELSE
      LET fr == Frame("start_recording", FALSE, "-")
          s1 == picam_stop([s EXCEPT !.preview_timer = FALSE], "r_stop")
      IN  IF Ok(s1) THEN Suspend(s1, fr, "pe") ELSE start_recording_except(s1, fr)

\* Lines 673-688: from processEvents() to the end.
start_recording_record(s, fr) ==
    LET s1 == picam_configure(s, "r_configure", "video")
        s2 == Try(s1, LAMBDA t: picam_start_recording(t, "r_start_recording",
                                                      temp_video_path))
        s3 == Try(s2, LAMBDA t:
                  showMessage([t EXCEPT !.is_recording = TRUE,
                                        !.start_record_btn = FALSE,
                                        !.stop_record_btn = TRUE,
                                        !.blink_timer = TRUE,
                                        !.record_indicator = TRUE],
                              "Recording...", {}))
    IN  IF Ok(s3) THEN s3 ELSE start_recording_except(s3, fr)

----------------------------------------------------------------------------
(* stop_recording, lines 700-753.                                          *)

stop_recording_except(s) ==
    showMessage(Catch(s), "Error saving video: Failed to stop or save recording",
                s.exc.mentions)

stop_recording_finally(s, fr) == call_init_camera(s, fr)

\* Lines 704-722: to processEvents().
stop_recording_enter(s) ==
    IF ~s.is_recording THEN s
    ELSE
      LET fr == Frame("stop_recording", FALSE, "-")
          s1 == picam_stop_recording([s EXCEPT !.blink_timer = FALSE,
                                               !.record_indicator = FALSE],
                                     "s_stop_recording")
          s2 == Try(s1, LAMBDA t:
                    showMessage([t EXCEPT !.is_recording = FALSE,
                                          !.start_record_btn = TRUE,
                                          !.stop_record_btn = FALSE],
                                "Recording stopped. Saving file...", {}))
      IN  IF Ok(s2) THEN Suspend(s2, fr, "pe")
          ELSE stop_recording_finally(stop_recording_except(s2), fr)

\* A finalization that keeps the temporary file after a successful conversion.
stop_recording_finalize_keeps_temp(s, filename, outcome) ==
    IF filename # ""
    THEN LET s1 == subprocess_run(showMessage(s, "Converting to MP4, please wait...", {}),
                                  outcome, filename)
         IN  Try(s1, LAMBDA t: showMessage(t, "MP4 saved", {filename}))
    ELSE os_remove(showMessage(s, "Video not saved.", {}), temp_video_path)

\* Lines 730-743: the conversion and the removal of the temporary file.
stop_recording_finalize(s, filename, outcome) ==
    IF filename # ""
    THEN LET s1 == subprocess_run(showMessage(s, "Converting to MP4, please wait...", {}),
                                  outcome, filename)
             s2 == Try(s1, LAMBDA t: showMessage(t, "MP4 saved", {filename}))
         IN  Try(s2, LAMBDA t: os_remove(t, temp_video_path))
    ELSE os_remove(showMessage(s, "Video not saved.", {}), temp_video_path)

\* Lines 730-753: from the save dialog's answer to the end.
stop_recording_save(s, fr, filename, outcome) ==
    LET s1 == stop_recording_finalize(s, filename, outcome)
    IN  stop_recording_finally(IF Ok(s1) THEN s1 ELSE stop_recording_except(s1), fr)

----------------------------------------------------------------------------
(* The other handlers.                                                     *)

\* Lines 409-420.
toggle_preview_body(s) ==
    IF s.preview_timer
    THEN showMessage([s EXCEPT !.preview_timer = FALSE, !.is_preview_paused = TRUE,
                               !.pause_btn = "Resume Preview"], "Preview Paused", {})
    ELSE showMessage([start_preview(s) EXCEPT !.is_preview_paused = FALSE,
                                              !.pause_btn = "Pause Preview"],
                     "Preview Resumed", {})

\* Lines 422-440.  The combo box has already changed its index to `index`.
on_preview_resolution_change_body(s, index) ==
    LET new_resolution == preview_resolutions[index + 1]
        s0 == [s EXCEPT !.preview_res_combo = index]
    IN  IF new_resolution # s0.current_preview_resolution
        THEN LET fr == Frame("on_preview_resolution_change", FALSE, "-")
                 s1 == showMessage([s0 EXCEPT !.current_preview_resolution = new_resolution],
                                   "Changing video stream resolution...", {})
             IN  call_init_camera([s1 EXCEPT !.preview_timer = FALSE], fr)
        ELSE s0

\* int(v * (num / den)) of lines 474-477: the product of an integer and the
\* float num / den, truncated towards zero.  For the three resolutions and
\* every v of the label the float product truncates to the exact quotient.
int_scaled(v, num, den) ==
    IF v >= 0 THEN (v * num) \div den ELSE 0 - (((0 - v) * num) \div den)
\* max(0, min(v, hi)) of lines 479-482.
clamp(v, hi) == IF v > hi THEN hi ELSE IF v < 0 THEN 0 ELSE v

\* A slice with the two corners exchanged.
crop_slice_corners_swapped(rect, resolution) ==
    LET sensor_w == resolution[1]
        sensor_h == resolution[2]
    IN  [x1 |-> clamp(int_scaled(rect.x2, sensor_w, preview_label_width), sensor_w),
         y1 |-> clamp(int_scaled(rect.y2, sensor_h, preview_label_height), sensor_h),
         x2 |-> clamp(int_scaled(rect.x1, sensor_w, preview_label_width), sensor_w),
         y2 |-> clamp(int_scaled(rect.y1, sensor_h, preview_label_height), sensor_h)]

\* Lines 467-485: the sensor-space slice [y1:y2, x1:x2] of the applied crop.
crop_slice(rect, resolution) ==
    LET sensor_w == resolution[1]
        sensor_h == resolution[2]
    IN  [x1 |-> clamp(int_scaled(rect.x1, sensor_w, preview_label_width), sensor_w),
         y1 |-> clamp(int_scaled(rect.y1, sensor_h, preview_label_height), sensor_h),
         x2 |-> clamp(int_scaled(rect.x2, sensor_w, preview_label_width), sensor_w),
         y2 |-> clamp(int_scaled(rect.y2, sensor_h, preview_label_height), sensor_h)]

\* The whole frame, drawn when no crop is applied.
FullFrame == [full |-> TRUE]

\* k = (self.rotation // 90) % 4 (line 462).
quarter_turns(r) == (r \div 90) % 4
\* A rotation that exchanges rows and columns on the first quarter turn only.
rot90_shape_first_quarter_only(shape, k) ==
    IF k = 1 THEN <<shape[2], shape[1]>> ELSE shape
\* The shape of np.rot90(img, k): rows and columns are exchanged for odd k.
rot90_shape(shape, k) ==
    IF k % 2 = 1 THEN <<shape[2], shape[1]>> ELSE shape
\* The shape of the frame of the preview configuration: <<height, width>>.
frame_shape(resolution) == <<resolution[2], resolution[1]>>
\* The shape of a[y1:y2, x1:x2] for an array a of the given shape.
slice_shape(shape, sl) ==
    LET rows(lo, hi, n) == IF clamp(hi, n) > clamp(lo, n) THEN clamp(hi, n) - clamp(lo, n) ELSE 0
    IN  <<rows(sl.y1, sl.y2, shape[1]), rows(sl.x1, sl.x2, shape[2])>>

\* A tick that stops the preview timer when capture_array() raises.
update_preview_body_stops_on_error(s) ==
    IF s.picam = "None" THEN s
    ELSE LET s1 == picam_capture_array(s, "u_capture_array")
         IN  IF Ok(s1) THEN [s1 EXCEPT !.img = FullFrame]
             ELSE [Catch(s1) EXCEPT !.preview_timer = FALSE]

\* Lines 442-525, as far as the session's state goes.  An error of the tick is
\* caught and written to the console (lines 524-525): it is not in `shown`, and
\* it is not counted in MaxFaults, since it leaves nothing behind.
\* Lines 461-464 rotate img; line 485 then takes the crop from
\* self.current_frame, the copy made at line 459 before the rotation.
update_preview_body(s) ==
    IF s.picam = "None" THEN s
    ELSE LET s1 == picam_capture_array(s, "u_capture_array")
             shape == frame_shape(s.current_preview_resolution)
             k == IF s.rotation # 0 THEN quarter_turns(s.rotation) ELSE 0
             s2 == Try(s1, LAMBDA t:
                       IF QRectTruth(t.applied_crop_rect)
                       THEN LET sl == crop_slice(t.applied_crop_rect,
                                                 t.current_preview_resolution)
                            IN  [t EXCEPT !.img = sl, !.img_k = 0,
                                          !.img_shape = slice_shape(shape, sl)]
                       ELSE [t EXCEPT !.img = FullFrame, !.img_k = k,
                                      !.img_shape = rot90_shape(shape, k)])
         IN  Catch(s2)

\* Lines 356-358.
toggle_blinking_indicator_body(s) ==
    [s EXCEPT !.record_indicator = ~s.record_indicator]

\* A press that looks at the button before it looks at the magnifier.
preview_mouse_press_body_crop_first(s, pos, button) ==
    LET s0 == [s EXCEPT !.buttons = @ \cup {button}]
    IN  IF button = "LeftButton"
        THEN [s0 EXCEPT !.drag_start = pos,
                        !.is_dragging = TRUE,
                        !.temp_drawn_rect = QRectOf(pos, pos),
                        !.crop_apply_btn = FALSE]
        ELSE IF s0.magnifier_toggle /\ contains(s0.mag_rect, pos)
        THEN [s0 EXCEPT !.is_mag_dragging = TRUE,
                        !.drag_offset = QPoint(pos.x - s0.mag_rect.x1,
                                               pos.y - s0.mag_rect.y1)]
        ELSE s0

\* Lines 755-764.  Qt adds the button to those held down.
preview_mouse_press_body(s, pos, button) ==
    LET s0 == [s EXCEPT !.buttons = @ \cup {button}]
    IN  IF s0.magnifier_toggle /\ contains(s0.mag_rect, pos)
        THEN [s0 EXCEPT !.is_mag_dragging = TRUE,
                        !.drag_offset = QPoint(pos.x - s0.mag_rect.x1,
                                               pos.y - s0.mag_rect.y1)]
        ELSE IF button = "LeftButton"
        THEN [s0 EXCEPT !.drag_start = pos,
                        !.is_dragging = TRUE,
                        !.temp_drawn_rect = QRectOf(pos, pos),
                        !.crop_apply_btn = FALSE]
        ELSE s0

\* A move that enables Apply for every draft that is not empty.
preview_mouse_move_body_any_size(s, pos) ==
    IF s.is_mag_dragging
    THEN [s EXCEPT !.mag_rect = moveTopLeft(@, QPoint(pos.x - s.drag_offset.x,
                                                      pos.y - s.drag_offset.y))]
    ELSE IF s.is_dragging /\ QPointTruth(s.drag_start)
    THEN LET r == normalized(QRectOf(s.drag_start, pos))
         IN  [s EXCEPT !.temp_drawn_rect = r,
                       !.crop_apply_btn = (width(r) > 0 /\ height(r) > 0)]
    ELSE s

\* Lines 766-776.
preview_mouse_move_body(s, pos) ==
    IF s.is_mag_dragging
    THEN [s EXCEPT !.mag_rect = moveTopLeft(@, QPoint(pos.x - s.drag_offset.x,
                                                      pos.y - s.drag_offset.y))]
    ELSE IF s.is_dragging /\ QPointTruth(s.drag_start)
    THEN LET r == normalized(QRectOf(s.drag_start, pos))
         IN  [s EXCEPT !.temp_drawn_rect = r,
                       !.crop_apply_btn = (width(r) > 10 /\ height(r) > 10)]
    ELSE s

\* Lines 778-785.  Qt removes the button from those held down.
preview_mouse_release_body(s, button) ==
    LET s0 == [s EXCEPT !.buttons = @ \ {button}, !.is_mag_dragging = FALSE]
    IN  IF s0.is_dragging
        THEN LET s1 == [s0 EXCEPT !.is_dragging = FALSE]
                 r == s1.temp_drawn_rect
             IN  IF QRectTruth(r) /\ (width(r) < 10 \/ height(r) < 10)
                 THEN [s1 EXCEPT !.temp_drawn_rect = None, !.crop_apply_btn = FALSE]
                 ELSE s1
        ELSE s0

\* An Apply that keeps the draft.
apply_crop_from_rect_body_keeps_draft(s) ==
    IF ~QRectTruth(s.temp_drawn_rect) THEN s
    ELSE showMessage([s EXCEPT !.applied_crop_rect = s.temp_drawn_rect],
                     "Cropping applied", {})

\* Lines 787-797.
apply_crop_from_rect_body(s) ==
    IF ~QRectTruth(s.temp_drawn_rect) THEN s
    ELSE showMessage([s EXCEPT !.applied_crop_rect = s.temp_drawn_rect,
                               !.temp_drawn_rect = None],
                     "Cropping applied", {})

\* Lines 344-354.
center_magnifier_box(s) ==
    [s EXCEPT !.mag_rect =
        moveTopLeft(@, QPoint((preview_label_width - width(s.mag_rect)) \div 2,
                              (preview_label_height - height(s.mag_rect)) \div 2))]

\* Lines 573-577; Qt has set the check box to `checked`.
toggle_magnifier_body(s, checked) ==
    LET s0 == [s EXCEPT !.magnifier_toggle = checked]
    IN  IF checked THEN center_magnifier_box(s0) ELSE s0

\* Python's % for a positive modulus: the result is in 0..n-1.
mod(a, n) == a % n
\* The remainder that takes the sign of the dividend.
mod_truncated(a, n) == IF a >= 0 THEN a % n ELSE 0 - ((0 - a) % n)

\* Python's % as the remainder of a truncating division.
set_rotation_relative_body_truncated(s, angle_change) ==
    showMessage([s EXCEPT !.rotation = mod_truncated(s.rotation + angle_change, 360),
                          !.rotation_steps = @ + angle_change],
                "Rotation", {})

\* Lines 882-885.
set_rotation_relative_body(s, angle_change) ==
    showMessage([s EXCEPT !.rotation = mod(s.rotation + angle_change, 360),
                          !.rotation_steps = @ + angle_change],
                "Rotation", {})

\* A float that is the quotient of two integers.
Float(num, den) == [num |-> num, den |-> den]

\* A lens position of value / 1000.0.
set_lens_position_body_normalized(s, value) ==
    IF s.picam = "None" \/ s.Picamera2 = "None" THEN s
    ELSE Catch(picam_set_lens_position(s, "l_set_controls", Float(value, 1000)))

\* Lines 863-880: position = float(value) / 100.0 is pushed; an error is printed.
set_lens_position_body(s, value) ==
    IF s.picam = "None" \/ s.Picamera2 = "None" THEN s
    ELSE Catch(picam_set_lens_position(s, "l_set_controls", Float(value, 100)))

\* QSlider.setValue(value), range 0..1000 (line 238): the value is bounded to
\* the range and valueChanged runs set_lens_position if the value changes.
lens_slider_setValue(s, value) ==
    LET v == clamp(value, lens_slider_maximum)
    IN  IF v = s.lens_slider THEN s
        ELSE set_lens_position_body([s EXCEPT !.lens_slider = v], v)

\* The data of the items of focus_combo (lines 222-224).
focus_modes == <<"auto", "continuous", "manual">>

\* capture_metadata() waits for the next frame: it never returns if the camera
\* is not started, and the program is stuck in the handler.
picam_capture_metadata(s, site) ==
    IF Fails(s, site) THEN Fault(s, RuntimeError)
    ELSE IF ~s.dev.started THEN Crash(s)
    ELSE s

\* Lines 827-837: the manual branch; metadata is the LensPosition read, None
\* or a Float, and int(lens_position * 100) is exact for the values tried.
set_focus_mode_manual(s, metadata) ==
    LET s1 == picam_capture_metadata(s, "f_capture_metadata")
        slider_value == (metadata.num * 100) \div metadata.den
        s2 == Try(s1, LAMBDA t:
                  IF t.app = "crashed" \/ metadata = None THEN t
                  ELSE set_lens_position_body(lens_slider_setValue(t, slider_value),
                                              slider_value))
        s3 == Try(s2, LAMBDA t:
                  IF t.app = "crashed" THEN t
                  ELSE picam_set_controls(t, "f_set_controls", "Manual"))
    IN  Try(s3, LAMBDA t: IF t.app = "crashed" THEN t ELSE [t EXCEPT !.manual_focus = TRUE])

\* Lines 808-843; Qt has set the selector to `index`.
set_focus_mode_body(s, index, metadata) ==
    LET s0 == [s EXCEPT !.focus_combo = index]
    IN  IF s0.picam = "None" \/ s0.Picamera2 = "None" THEN s0
        ELSE
          LET mode_data == focus_modes[index + 1]
              s1 == [s0 EXCEPT !.autofocus_btn = FALSE, !.manual_focus = FALSE]
              s2 == CASE mode_data = "auto" ->
                           Try(picam_set_controls(s1, "f_set_controls", "Auto"),
                               LAMBDA t: [t EXCEPT !.autofocus_btn = TRUE])
                      [] mode_data = "continuous" ->
                           picam_set_controls(s1, "f_set_controls", "Continuous")
                      [] mode_data = "manual" -> set_focus_mode_manual(s1, metadata)
          IN  IF s2.app = "crashed" THEN s2
              ELSE IF Ok(s2) THEN showMessage(s2, "Focus mode", {})
              ELSE showMessage(Catch(s2), "Focus mode error", s2.exc.mentions)

\* Lines 845-861.
trigger_autofocus_body(s) ==
    IF s.picam = "None" \/ s.Picamera2 = "None"
    THEN showMessage(s, "Camera not initialized or controls not available.", {})
    ELSE IF focus_modes[s.focus_combo + 1] # "auto"
    THEN showMessage(s, "Autofocus can only be triggered in 'Trigger Autofocus Mode'.", {})
    ELSE LET s1 == picam_af_trigger(s, "t_set_controls")
         IN  IF Ok(s1) THEN showMessage(s1, "Autofocus triggered.", {})
             ELSE showMessage(Catch(s1), "Autofocus trigger error", s1.exc.mentions)

\* Lines 889-895.
closeEvent_recording(s) ==
    IF s.is_recording
    THEN LET s1 == picam_stop_recording(s, "x_stop_recording")
             s2 == Try(s1, LAMBDA t: IF temp_video_path \in t.fs
                                     THEN os_remove(t, temp_video_path) ELSE t)
         IN  IF Ok(s2) THEN s2
             ELSE showMessage(Catch(s2), "Error stopping recording on close",
                              s2.exc.mentions)
    ELSE s

\* Lines 887-910.
closeEvent_body(s) ==
    LET s1 == closeEvent_recording(s)
        s2 == [s1 EXCEPT !.preview_timer = FALSE, !.blink_timer = FALSE]
        s3 == IF s2.picam # "None"
              THEN Catch(Try(picam_stop(s2, "x_stop"), LAMBDA t: picam_close(t, "x_close")))
              ELSE s2
    IN  [s3 EXCEPT !.app = "closed"]

----------------------------------------------------------------------------
(* The state after CameraGUI.__init__ (lines 30-72): setup_ui, init_camera *)
(* and start_preview.  Nothing can be delivered while __init__ runs: the   *)
(* window is not shown and no timer has been started.                      *)

InitSites == {"i_stop", "i_close", "i_open", "i_configure", "i_start", "i_set_controls"}

Constructed(lib, F, commands, faults) ==
    [Picamera2 |-> lib, picam |-> "None", dev |-> NoDev,
     preview_timer |-> FALSE, blink_timer |-> FALSE,
     is_preview_paused |-> FALSE, pause_btn |-> "Pause Preview",
     is_recording |-> FALSE, start_record_btn |-> TRUE, stop_record_btn |-> FALSE,
     record_indicator |-> FALSE, capture_overlay |-> FALSE,
     current_preview_resolution |-> preview_resolutions[2], preview_res_combo |-> 1,
     applied_crop_rect |-> None, temp_drawn_rect |-> None, crop_apply_btn |-> FALSE,
     current_frame |-> "None", fs |-> {}, app |-> "running", stack |-> <<>>,
     shown |-> {}, configured_on_started |-> FALSE,
     commands_left |-> commands, faults_left |-> faults,
     mag_rect |-> QRect(10, 10, 150, 150), is_mag_dragging |-> FALSE,
     drag_offset |-> None, is_dragging |-> FALSE, drag_start |-> None,
     magnifier_toggle |-> FALSE, buttons |-> {}, rotation |-> 0,
     rotation_steps |-> 0, focus_combo |-> 1, autofocus_btn |-> FALSE,
     manual_focus |-> FALSE, lens_slider |-> 500, lens_position |-> None,
     img |-> None, img_k |-> 0, img_shape |-> None,
     exc |-> NoExc, faults |-> F, ret |-> TRUE, mbox |-> FALSE]

Started(lib, F, commands, faults) ==
    LET r == init_camera(Constructed(lib, F, commands, faults))
    IN  start_preview(IF r.mbox THEN init_camera_failed(r) ELSE r)

InitWith(commands, faults) ==
    \E lib \in {"None", "class"}, F \in {G \in SUBSET InitSites : Cardinality(G) <= faults} :
      LET s == Started(lib, F, commands, faults)
      IN  /\ Picamera2 = s.Picamera2
          /\ picam = s.picam
          /\ dev = s.dev
          /\ preview_timer = s.preview_timer
          /\ blink_timer = s.blink_timer
          /\ is_preview_paused = s.is_preview_paused
          /\ pause_btn = s.pause_btn
          /\ is_recording = s.is_recording
          /\ start_record_btn = s.start_record_btn
          /\ stop_record_btn = s.stop_record_btn
          /\ record_indicator = s.record_indicator
          /\ capture_overlay = s.capture_overlay
          /\ current_preview_resolution = s.current_preview_resolution
          /\ preview_res_combo = s.preview_res_combo
          /\ applied_crop_rect = s.applied_crop_rect
          /\ temp_drawn_rect = s.temp_drawn_rect
          /\ crop_apply_btn = s.crop_apply_btn
          /\ current_frame = s.current_frame
          /\ fs = s.fs
          /\ app = s.app
          /\ stack = s.stack
          /\ shown = s.shown
          /\ configured_on_started = s.configured_on_started
          /\ commands_left = s.commands_left
          /\ faults_left = s.faults_left
          /\ mag_rect = s.mag_rect
          /\ is_mag_dragging = s.is_mag_dragging
          /\ drag_offset = s.drag_offset
          /\ is_dragging = s.is_dragging
          /\ drag_start = s.drag_start
          /\ magnifier_toggle = s.magnifier_toggle
          /\ buttons = s.buttons
          /\ rotation = s.rotation
          /\ rotation_steps = s.rotation_steps
          /\ focus_combo = s.focus_combo
          /\ autofocus_btn = s.autofocus_btn
          /\ manual_focus = s.manual_focus
          /\ lens_slider = s.lens_slider
          /\ lens_position = s.lens_position
          /\ img = s.img
          /\ img_k = s.img_k
          /\ img_shape = s.img_shape

Init == InitWith(MaxCommands, MaxFaults)

----------------------------------------------------------------------------
(* The event loop.                                                         *)

\* Where the innermost event loop runs: "main", or the pc of the innermost frame.
Loop == IF stack = <<>> THEN "main" ELSE Head(stack).pc
\* Some event loop is running: the main loop until the window closes, or a nested one.
Dispatching == app # "crashed" /\ (Loop = "main" => app = "running")
\* The running loop delivers timer events.
TimerEvents == Dispatching
\* The running loop delivers input to the main window: the main loop, or a
\* processEvents() call; not a modal dialog, and not once the window is closed.
UserEvents == app = "running" /\ Loop \in {"main", "pe"}
\* The user gives one more command.
UserCommand == UserEvents /\ commands_left > 0
\* A handler that re-enters the event loop can start.
CanNest == Len(stack) < MaxDepth
\* The innermost suspended handler waits at pc in handler h.
Waiting(h, pc) ==
    app # "crashed" /\ Loop = pc /\ Head(stack).h = h
\* The state the innermost suspended handler resumes in.
Resumed(F) == [Cur(F) EXCEPT !.stack = Tail(stack)]

CaptureSites == {"c_configure", "c_start", "c_capture_file", "c_rename"} \cup InitSites
RecordSites == {"r_stop", "r_configure", "r_start_recording"} \cup InitSites
StopSites == {"s_stop_recording"} \cup InitSites
CloseSites == {"x_stop_recording", "x_stop", "x_close"}

\* The Capture button (line 181).
capture_image ==
    /\ UserCommand /\ CanNest
    /\ \E capture_format \in Formats,
          F \in FaultSets({"c_stop"}) :
         Commit(capture_image_enter(Command(F), capture_format))

capture_image_processEvents_return ==
    /\ Waiting("capture_image", "pe")
    /\ \E F \in FaultSets(CaptureSites) :
         Commit(capture_image_configure(Resumed(F), Head(stack)))

capture_image_getSaveFileName_return ==
    /\ Waiting("capture_image", "dlg")
    /\ \E filename \in ImageFilenames, F \in FaultSets(CaptureSites) :
         Commit(capture_image_save(Resumed(F), Head(stack), filename))

\* The Start Recording button (line 189).
start_recording ==
    /\ UserCommand /\ CanNest /\ start_record_btn
    /\ \E F \in FaultSets(RecordSites) : Commit(start_recording_enter(Command(F)))

start_recording_processEvents_return ==
    /\ Waiting("start_recording", "pe")
    /\ \E F \in FaultSets(RecordSites) :
         Commit(start_recording_record(Resumed(F), Head(stack)))

\* The Stop Recording button (line 193).
stop_recording ==
    /\ UserCommand /\ CanNest /\ stop_record_btn
    /\ \E F \in FaultSets(StopSites) : Commit(stop_recording_enter(Command(F)))

\* Line 722 to line 725: nothing runs between processEvents() and the dialog.
stop_recording_processEvents_return ==
    /\ Waiting("stop_recording", "pe")
    /\ Commit(Suspend(Resumed({}), Head(stack), "dlg"))

stop_recording_getSaveFileName_return ==
    /\ Waiting("stop_recording", "dlg")
    /\ \E filename \in VideoFilenames, outcome \in {"ok", "exit", "oserror"},
          F \in FaultSets(InitSites) :
         /\ filename = "" => outcome = "ok"
         /\ Commit(stop_recording_save(Resumed(F), Head(stack), filename, outcome))

\* The user dismisses init_camera's message box; the caller goes on.
init_camera_critical_return ==
    /\ app # "crashed" /\ Loop = "mb"
    /\ Commit(after_init_camera(init_camera_failed(Resumed({})), Head(stack)))

\* The pause button (line 107).
toggle_preview ==
    /\ UserCommand
    /\ Commit(toggle_preview_body(Command({})))

\* The resolution selector (line 162): the signal fires when the index changes.
on_preview_resolution_change ==
    /\ UserCommand /\ CanNest
    /\ \E index \in 0..2, F \in FaultSets(InitSites) :
         /\ index # preview_res_combo
         /\ Commit(on_preview_resolution_change_body(Command(F), index))

\* The preview timer's timeout (line 406).
update_preview ==
    /\ TimerEvents /\ preview_timer
    /\ \E F \in SUBSET {"u_capture_array"} : Commit(update_preview_body(Timeout(F)))

\* The blink timer's timeout (line 55).
toggle_blinking_indicator ==
    /\ TimerEvents /\ blink_timer
    /\ Commit(toggle_blinking_indicator_body(Timeout({})))

\* The window is closed.
closeEvent ==
    /\ UserEvents
    /\ \E F \in FaultSets(CloseSites) : Commit(closeEvent_body(Cur(F)))

Next ==
    \/ capture_image
    \/ capture_image_processEvents_return
    \/ capture_image_getSaveFileName_return
    \/ start_recording
    \/ start_recording_processEvents_return
    \/ stop_recording
    \/ stop_recording_processEvents_return
    \/ stop_recording_getSaveFileName_return
    \/ init_camera_critical_return
    \/ toggle_preview
    \/ on_preview_resolution_change
    \/ update_preview
    \/ toggle_blinking_indicator
    \/ closeEvent

Spec == Init /\ [][Next]_vars

\* The same program with one command and one fault fewer.
InitSmall == InitWith(MaxCommands - 1, MaxFaults - 1)
SpecSmall == InitSmall /\ [][Next]_vars

----------------------------------------------------------------------------
(* The handlers of the two recording buttons as slots, called whatever the *)
(* state of their buttons: the enabling of the buttons is what keeps the   *)
(* user from start_recording during a recording and from stop_recording    *)
(* without one, and lines 652-653 and 702-703 are what the handlers do     *)
(* about it themselves.                                                    *)

start_recording_called ==
    /\ UserCommand /\ CanNest
    /\ \E F \in FaultSets(RecordSites) : Commit(start_recording_enter(Command(F)))

stop_recording_called ==
    /\ UserCommand /\ CanNest
    /\ \E F \in FaultSets(StopSites) : Commit(stop_recording_enter(Command(F)))

NextCalled ==
    \/ Next
    \/ start_recording_called
    \/ stop_recording_called

SpecCalled == InitSmall /\ [][NextCalled]_vars

----------------------------------------------------------------------------
(* The pointer over the preview, the crop and the magnifier.  No other     *)
(* handler than these and on_preview_resolution_change (through            *)
(* clear_crop) writes the attributes they use, so they are run here with   *)
(* the resolution selector alone.                                          *)

\* Where the pointer is pressed (inside the label) and where it can be moved
\* to and released (a held button grabs the pointer, so also outside).
PressPoints ==
    {QPoint(0, 0), QPoint(1, 1), QPoint(11, 10), QPoint(11, 11), QPoint(330, 230)}
MovePoints == PressPoints \cup {QPoint(-5, -5)}
MouseButtons == {"LeftButton", "RightButton"}

\* mousePressEvent of the preview label (line 279).
preview_mouse_press_at(pos, button) ==
    /\ UserCommand
    /\ button \notin buttons
    /\ Commit(preview_mouse_press_body(Command({}), pos, button))
preview_mouse_press ==
    \E pos \in PressPoints, button \in MouseButtons : preview_mouse_press_at(pos, button)

\* mouseMoveEvent (line 280); the label tracks the mouse (line 282).
preview_mouse_move ==
    /\ UserCommand
    /\ \E pos \in (IF buttons = {} THEN PressPoints ELSE MovePoints) :
         Commit(preview_mouse_move_body(Command({}), pos))

\* mouseReleaseEvent (line 281).
preview_mouse_release ==
    /\ UserCommand
    /\ \E button \in buttons : Commit(preview_mouse_release_body(Command({}), button))

\* The Apply button (line 206), when enabled.
apply_crop_from_rect ==
    /\ UserCommand /\ crop_apply_btn
    /\ Commit(apply_crop_from_rect_body(Command({})))

\* The Clear button (line 210).
crop_clear_btn_clicked ==
    /\ UserCommand
    /\ Commit(clear_crop(Command({})))

\* The Show Magnifier check box (line 138).
toggle_magnifier ==
    /\ UserCommand
    /\ Commit(toggle_magnifier_body(Command({}), ~magnifier_toggle))

NextCrop ==
    \/ preview_mouse_press
    \/ preview_mouse_move
    \/ preview_mouse_release
    \/ apply_crop_from_rect
    \/ crop_clear_btn_clicked
    \/ toggle_magnifier
    \/ on_preview_resolution_change
    \/ init_camera_critical_return

\* Events of the user in one run of the pointer's handlers.
MaxEvents == 5
InitCrop == InitWith(MaxEvents, MaxFaults)
SpecCrop == InitCrop /\ [][NextCrop]_vars

----------------------------------------------------------------------------
(* The crop of update_preview, run on crops and resolutions drawn from     *)
(* bounded sets: the state is the one after a crop has been drawn and      *)
(* applied at the resolution selected.                                     *)

\* Left and right pixels, top and bottom pixels of the crops tried.
CropXs == {0, 1, 5, 399, 400, 788, 798, 799}
CropYs == {0, 1, 5, 299, 300, 588, 598, 599}
\* The crops Apply can produce (wider and higher than 10) inside the label.
CropRects ==
    {r \in [x1 : CropXs, y1 : CropYs, x2 : CropXs, y2 : CropYs] :
       width(r) > 10 /\ height(r) > 10}

InitTransform ==
    \E index \in 0..2, rect \in CropRects :
      LET s0 == Started("class", {}, 0, 0)
          s == [init_camera([s0 EXCEPT !.current_preview_resolution =
                                          preview_resolutions[index + 1],
                                       !.preview_res_combo = index])
                  EXCEPT !.applied_crop_rect = rect, !.shown = {}]
      IN  /\ Picamera2 = s.Picamera2
          /\ picam = s.picam
          /\ dev = s.dev
          /\ preview_timer = s.preview_timer
          /\ blink_timer = s.blink_timer
          /\ is_preview_paused = s.is_preview_paused
          /\ pause_btn = s.pause_btn
          /\ is_recording = s.is_recording
          /\ start_record_btn = s.start_record_btn
          /\ stop_record_btn = s.stop_record_btn
          /\ record_indicator = s.record_indicator
          /\ capture_overlay = s.capture_overlay
          /\ current_preview_resolution = s.current_preview_resolution
          /\ preview_res_combo = s.preview_res_combo
          /\ applied_crop_rect = s.applied_crop_rect
          /\ temp_drawn_rect = s.temp_drawn_rect
          /\ crop_apply_btn = s.crop_apply_btn
          /\ current_frame = s.current_frame
          /\ fs = s.fs
          /\ app = s.app
          /\ stack = s.stack
          /\ shown = s.shown
          /\ configured_on_started = s.configured_on_started
          /\ commands_left = s.commands_left
          /\ faults_left = s.faults_left
          /\ mag_rect = s.mag_rect
          /\ is_mag_dragging = s.is_mag_dragging
          /\ drag_offset = s.drag_offset
          /\ is_dragging = s.is_dragging
          /\ drag_start = s.drag_start
          /\ magnifier_toggle = s.magnifier_toggle
          /\ buttons = s.buttons
          /\ rotation = s.rotation
          /\ rotation_steps = s.rotation_steps
          /\ focus_combo = s.focus_combo
          /\ autofocus_btn = s.autofocus_btn
          /\ manual_focus = s.manual_focus
          /\ lens_slider = s.lens_slider
          /\ lens_position = s.lens_position
          /\ img = s.img
          /\ img_k = s.img_k
          /\ img_shape = s.img_shape

NextTransform == update_preview
SpecTransform == InitTransform /\ [][NextTransform]_vars

----------------------------------------------------------------------------
(* The rotation buttons and the focus controls.  No other handler writes   *)
(* the attributes they use.                                                *)

\* The values the slider is moved to, and the lens positions the camera reports.
SliderValues == {0, 250, 500, 1000}
MetadataLensPositions == {None, Float(0, 1), Float(5, 2), Float(12, 1)}
FocusSites == {"f_set_controls", "f_capture_metadata", "l_set_controls"}

\* The two rotation buttons (lines 261, 267).
set_rotation_relative ==
    /\ UserCommand
    /\ \E angle_change \in {0 - 90, 90} :
         Commit(set_rotation_relative_body(Command({}), angle_change))

\* The focus selector (line 226): the signal fires when the index changes.
set_focus_mode ==
    /\ UserCommand
    /\ \E index \in 0..2, metadata \in MetadataLensPositions, F \in FaultSets(FocusSites) :
         /\ index # focus_combo
         /\ Commit(set_focus_mode_body(Command(F), index, metadata))

\* The lens slider (line 240), which the user can move while it is shown.
set_lens_position_at(value) ==
    /\ UserCommand /\ manual_focus
    /\ value # lens_slider
    /\ \E F \in FaultSets({"l_set_controls"}) :
         Commit(set_lens_position_body([Command(F) EXCEPT !.lens_slider = value], value))
set_lens_position == \E value \in SliderValues : set_lens_position_at(value)

\* The Trigger Autofocus button (line 230), while it is shown.
trigger_autofocus ==
    /\ UserCommand /\ autofocus_btn
    /\ \E F \in FaultSets({"t_set_controls"}) : Commit(trigger_autofocus_body(Command(F)))

NextControls ==
    \/ set_rotation_relative
    \/ set_focus_mode
    \/ set_lens_position
    \/ trigger_autofocus

InitControls == InitWith(MaxEvents, MaxFaults)
SpecControls == InitControls /\ [][NextControls]_vars

----------------------------------------------------------------------------
(* The focus selector and a handler that re-initialises the camera.        *)

NextReinit ==
    \/ set_focus_mode
    \/ on_preview_resolution_change
    \/ init_camera_critical_return

SpecReinit == InitSmall /\ [][NextReinit]_vars

----------------------------------------------------------------------------
(* The rendering of a tick: the rotation buttons and the preview timer,    *)
(* run on crops and resolutions drawn from bounded sets.                   *)

\* The variables have the values of the record s.
StartsAs(s) ==
    /\ Picamera2 = s.Picamera2
    /\ picam = s.picam
    /\ dev = s.dev
    /\ preview_timer = s.preview_timer
    /\ blink_timer = s.blink_timer
    /\ is_preview_paused = s.is_preview_paused
    /\ pause_btn = s.pause_btn
    /\ is_recording = s.is_recording
    /\ start_record_btn = s.start_record_btn
    /\ stop_record_btn = s.stop_record_btn
    /\ record_indicator = s.record_indicator
    /\ capture_overlay = s.capture_overlay
    /\ current_preview_resolution = s.current_preview_resolution
    /\ preview_res_combo = s.preview_res_combo
    /\ applied_crop_rect = s.applied_crop_rect
    /\ temp_drawn_rect = s.temp_drawn_rect
    /\ crop_apply_btn = s.crop_apply_btn
    /\ current_frame = s.current_frame
    /\ fs = s.fs
    /\ app = s.app
    /\ stack = s.stack
    /\ shown = s.shown
    /\ configured_on_started = s.configured_on_started
    /\ commands_left = s.commands_left
    /\ faults_left = s.faults_left
    /\ mag_rect = s.mag_rect
    /\ is_mag_dragging = s.is_mag_dragging
    /\ drag_offset = s.drag_offset
    /\ is_dragging = s.is_dragging
    /\ drag_start = s.drag_start
    /\ magnifier_toggle = s.magnifier_toggle
    /\ buttons = s.buttons
    /\ rotation = s.rotation
    /\ rotation_steps = s.rotation_steps
    /\ focus_combo = s.focus_combo
    /\ autofocus_btn = s.autofocus_btn
    /\ manual_focus = s.manual_focus
    /\ lens_slider = s.lens_slider
    /\ lens_position = s.lens_position
    /\ img = s.img
    /\ img_k = s.img_k
    /\ img_shape = s.img_shape

\* No crop, or a crop that has been drawn and applied.
RenderCrops ==
    {None, QRect(0, 0, 800, 600), QRect(5, 5, 395, 295), QRect(400, 300, 399, 299)}

\* The state after the resolution has been selected and the crop applied.
InitRender ==
    \E index \in 0..2, rect \in RenderCrops :
      LET s0 == Started("class", {}, MaxEvents, 0)
      IN  StartsAs([init_camera([s0 EXCEPT !.current_preview_resolution =
                                             preview_resolutions[index + 1],
                                          !.preview_res_combo = index])
                      EXCEPT !.applied_crop_rect = rect, !.shown = {}])

NextRender ==
    \/ set_rotation_relative
    \/ update_preview

SpecRender == InitRender /\ [][NextRender]_vars

----------------------------------------------------------------------------
(* The claims.                                                             *)

Shown(text) == \E m \in shown : m.text = text
ErrorShown ==
    \/ Shown("Error saving video: Failed to stop or save recording")
    \/ Shown("Recording error: Failed to start recording")
    \/ Shown("Capture error: Failed to capture")

\* C1: a mode switch stops the running configuration before it configures the
\* next one: no step of init_camera, capture_image, start_recording or
\* stop_recording calls configure() on a camera that is still started.
C1_StopBeforeConfigure == ~configured_on_started

\* C2: a still capture asked for while a recording is active is rejected:
\* capture_image invoked with is_recording true leaves the camera, the
\* recording and the timers as they are and suspends nothing.
C2_CaptureRejectedWhileRecording ==
    [][(is_recording /\ capture_image)
         => (dev' = dev /\ is_recording' /\ preview_timer' = preview_timer
             /\ stack' = stack)]_vars

\* C3: closing the window while is_recording is true stops the recording and
\* leaves no temporary video file.
C3_CloseStopsAndDeletes ==
    [][(is_recording /\ closeEvent)
         => (~dev'.started /\ ~dev'.enc /\ temp_video_path \notin fs')]_vars

\* C4: the preview timer is inactive whenever the camera is stopped or is in
\* the still or the video configuration.
C4_NoTickDuringModeTransition ==
    (picam # "None" /\ dev.open /\ (~dev.started \/ dev.cfg # "preview"))
      => ~preview_timer

\* C5: at most one camera command handler has started and not yet returned.
C5_OneOperationInFlight == Len(stack) <= 1

\* C6: when init_camera has failed (it is showing its error box), self.picam
\* holds no device that is open but not configured and started: the device
\* that was created has been closed.
C6_InitFailureLeavesNoHalfConfiguredDevice ==
    (Loop = "mb" /\ Picamera2 = "class") => (picam = "None" \/ ~dev.open)

\* C7: when stop_recording was given a target path and the conversion failed,
\* the temporary video file still exists and the error shown names its path.
ConversionFailed ==
    Shown("Converting to MP4, please wait...") /\ ~Shown("MP4 saved")
C7_FailedConversionKeepsTemp ==
    ConversionFailed
      => /\ temp_video_path \in fs
         /\ \E m \in shown : /\ m.text = "Error saving video: Failed to stop or save recording"
                             /\ temp_video_path \in m.mentions

\* C8: when stop_recording is given a target path and the conversion succeeds,
\* the step creates the file at the target and nothing else, and removes the
\* temporary video file.
C8_SavedExactlyOneFile ==
    [][(Waiting("stop_recording", "dlg") /\ Shown("MP4 saved")')
         => \E filename \in VideoFilenames \ {""} :
              /\ [text |-> "MP4 saved", mentions |-> {filename}] \in shown'
              /\ fs' = (fs \cup {filename}) \ {temp_video_path}]_vars
\* A recording has been saved: the target exists and the temporary file does not.
C8_Witness ==
    /\ Shown("MP4 saved")
    /\ "~/video.mp4" \in fs
    /\ temp_video_path \notin fs

\* C9: when a recording is stopped and the user declines to save, no temporary
\* video file is left and what is shown is the discard, not an error.
C9_DeclinedIsDiscard ==
    Shown("Video not saved.") => (temp_video_path \notin fs /\ ~ErrorShown)

\* C10: every stop_recording invoked while is_recording is true returns with
\* the session previewing: is_recording false, the camera started in the
\* preview configuration, the preview timer running, the start button enabled
\* and the stop button disabled.
StopRecordingReturns ==
    \/ is_recording /\ stop_recording /\ stack' = stack
    \/ stop_recording_getSaveFileName_return /\ stack' = Tail(stack)
    \/ Waiting("stop_recording", "mb") /\ init_camera_critical_return
C10_StopRecordingEndsPreviewing ==
    [][StopRecordingReturns
         => (/\ ~is_recording'
             /\ dev'.open /\ dev'.started /\ dev'.cfg = "preview"
             /\ preview_timer'
             /\ start_record_btn' /\ ~stop_record_btn')]_vars

\* C11: the applied crop is None or at least 10 pixels wide and 10 pixels high,
\* whatever the presses, moves, releases, Apply, Clear and magnifier toggles.
C11_AppliedCropAtLeastTen ==
    applied_crop_rect # None
      => (width(applied_crop_rect) >= 10 /\ height(applied_crop_rect) >= 10)
\* A crop has been applied and a draft smaller than 10 pixels is being drawn.
C11_Witness ==
    /\ applied_crop_rect # None
    /\ is_dragging
    /\ QRectTruth(temp_drawn_rect)
    /\ width(temp_drawn_rect) < 10

\* C12: a press inside mag_rect while the magnifier is shown starts a magnifier
\* drag (is_mag_dragging, with the offset of the press in the rectangle) and
\* leaves the crop draft, the crop drag, the applied crop and the Apply button
\* as they were, for every button and every state.
C12_PressInMagnifierStartsMagDrag ==
    [][\A pos \in PressPoints, button \in MouseButtons :
         (magnifier_toggle /\ contains(mag_rect, pos) /\ preview_mouse_press_at(pos, button))
           => /\ is_mag_dragging'
              /\ drag_offset' = QPoint(pos.x - mag_rect.x1, pos.y - mag_rect.y1)
              /\ UNCHANGED <<temp_drawn_rect, is_dragging, drag_start,
                             applied_crop_rect, crop_apply_btn, mag_rect>>]_vars
\* A magnifier drag has started while a crop draft was being drawn.
C12_Witness ==
    /\ magnifier_toggle
    /\ is_mag_dragging
    /\ is_dragging
    /\ temp_drawn_rect # None

\* on_preview_resolution_change returns: at once when init_camera succeeded,
\* after init_camera's message box when it failed.
ResolutionChangeReturns ==
    \/ on_preview_resolution_change /\ stack' = stack
    \/ Waiting("on_preview_resolution_change", "mb") /\ init_camera_critical_return

\* C13: when the preview resolution is switched while a crop is applied, the
\* applied crop and the draft are both None once on_preview_resolution_change
\* has returned.
C13_ResolutionSwitchClearsCrop ==
    [][(applied_crop_rect # None /\ ResolutionChangeReturns)
         => (applied_crop_rect' = None /\ temp_drawn_rect' = None)]_vars

\* No camera is held: self.picam is None or closed, and the preview timer is stopped.
Idle == (picam = "None" \/ ~dev.open) /\ ~preview_timer

\* C14: when a switch of the preview resolution has failed and
\* on_preview_resolution_change returns, the resolution the user had selected
\* is not the current one and the selector shows the current one, or the
\* session is idle.
C14_FailedSwitchReverts ==
    [][(Waiting("on_preview_resolution_change", "mb") /\ init_camera_critical_return)
         => \/ /\ current_preview_resolution' # preview_resolutions[preview_res_combo + 1]
               /\ preview_res_combo' = ItemIndex(current_preview_resolution')
            \/ Idle']_vars

\* C15: for every applied crop inside the 800x600 label and every preview
\* resolution, the slice update_preview takes from the frame satisfies
\* 0 <= x1 <= x2 <= sensor width and 0 <= y1 <= y2 <= sensor height.
C15_CropSliceInsideSensor ==
    (QRectTruth(applied_crop_rect) /\ img # None /\ img # FullFrame)
      => /\ 0 <= img.x1 /\ img.x1 <= img.x2
         /\ img.x2 <= current_preview_resolution[1]
         /\ 0 <= img.y1 /\ img.y1 <= img.y2
         /\ img.y2 <= current_preview_resolution[2]
\* A crop that reaches the last pixel of the label has been drawn at 1920x1080.
C15_Witness ==
    /\ QRectTruth(applied_crop_rect)
    /\ applied_crop_rect.x2 = 799 /\ applied_crop_rect.y2 = 599
    /\ current_preview_resolution = <<1920, 1080>>
    /\ img # None /\ img # FullFrame
    /\ img.x2 = 1917 /\ img.y2 = 1078

\* C16: the rotation is always one of 0, 90, 180, 270: it is the sum of the
\* rotate-left (-90) and rotate-right (+90) steps taken so far modulo 360, and
\* it is never negative.
C16_RotationIsSumOfStepsMod360 ==
    /\ rotation \in {0, 90, 180, 270}
    /\ rotation >= 0
    /\ rotation = mod(rotation_steps, 360)

\* A rotate-left from 0: the sum of the steps is negative, the rotation is 270.
C16_Witness == rotation_steps = 0 - 90 /\ rotation = 270

\* The lens position a slider move to v pushes, where the push goes through.
LensPushed(v) ==
    /\ set_lens_position_at(v)
    /\ faults_left' = faults_left
    /\ picam # "None" /\ dev.open

C18_FocusControlsFollowMode ==
    app # "crashed" =>
      /\ autofocus_btn = (focus_modes[focus_combo + 1] = "auto")
      /\ manual_focus = (focus_modes[focus_combo + 1] = "manual")

\* A pointer move or release that the handlers take as part of a magnifier
\* drag, and one they take as part of a crop drag.
MagnifierDragStep == (preview_mouse_move \/ preview_mouse_release) /\ is_mag_dragging
CropDragStep == (preview_mouse_move \/ preview_mouse_release) /\ ~is_mag_dragging /\ is_dragging

\* C19: the crop and the magnifier do not consume each other's drags: a move
\* or release handled as a magnifier drag leaves the draft rectangle, the
\* applied crop and the Apply button unchanged, and one handled as a crop drag
\* leaves mag_rect unchanged.
C19_DragsDoNotInterfere ==
    [][/\ MagnifierDragStep => UNCHANGED <<temp_drawn_rect, applied_crop_rect, crop_apply_btn>>
       /\ CropDragStep => UNCHANGED mag_rect]_vars

\* C20: mag_rect always lies within [0,800] x [0,600] and is 150 x 150.
C20_MagnifierInsideLabel ==
    /\ 0 <= mag_rect.x1 /\ mag_rect.x1 + width(mag_rect) <= preview_label_width
    /\ 0 <= mag_rect.y1 /\ mag_rect.y1 + height(mag_rect) <= preview_label_height
    /\ width(mag_rect) = 150 /\ height(mag_rect) = 150

\* C21: the tick rotates and then crops: when update_preview draws a frame with
\* the rotation 90, 180 or 270 and a crop applied, the image drawn is the crop
\* taken from the rotated frame, not from the frame as captured.
C21_CropTakenFromRotatedFrame ==
    [][(update_preview /\ rotation # 0 /\ QRectTruth(applied_crop_rect)
          /\ img' # None /\ img' # FullFrame)
         => img_k' = quarter_turns(rotation)]_vars

\* capture_image returns: from its first lines, after the capture has failed,
\* after the save dialog, or after init_camera's message box.
CaptureImageReturns ==
    \/ capture_image /\ stack' = stack
    \/ capture_image_processEvents_return /\ stack' = Tail(stack)
    \/ capture_image_getSaveFileName_return /\ stack' = Tail(stack)
    \/ Waiting("capture_image", "mb") /\ init_camera_critical_return

\* C22: still capture cleans up on every path.  When the save dialog has been
\* answered the temporary capture file does not exist afterwards, and when the
\* answer was a target the image exists at the target; when the capture or the
\* move has failed the error is shown; and when capture_image returns the
\* camera is started in the preview configuration.
C22_CaptureCleansUp ==
    [][/\ capture_image_getSaveFileName_return
            => /\ temp_path(Head(stack).capture_format) \notin fs'
               /\ Shown("Picture discarded.")' \/ "~/capture.img" \in fs'
                    \/ Shown("Capture error: Failed to capture")'
       /\ (capture_image_processEvents_return /\ Loop' # "dlg")
            => Shown("Capture error: Failed to capture")'
       /\ (app' # "crashed" /\ picam # "None" /\ CaptureImageReturns)
            => (dev'.open /\ dev'.started /\ dev'.cfg = "preview")]_vars

\* C23: shutdown leads to Idle from any state: once closeEvent has returned,
\* the preview timer and the blink timer are stopped and the camera is stopped
\* and closed.
C23_ShutdownLeadsToIdle ==
    app = "closed"
      => /\ ~preview_timer /\ ~blink_timer
         /\ picam = "None" \/ (~dev.open /\ ~dev.started)

\* C24: start_recording invoked while is_recording is true, and stop_recording
\* invoked while it is false, change nothing: the camera, the timers, the
\* files, the buttons, the indicator, is_recording and the suspended handlers
\* are as before.
C24_SecondStartChangesNothing ==
    [][((is_recording /\ start_recording_called)
          \/ (~is_recording /\ stop_recording_called))
         => UNCHANGED <<picam, dev, preview_timer, blink_timer, fs, is_recording,
                        start_record_btn, stop_record_btn, record_indicator,
                        is_preview_paused, pause_btn, stack, app>>]_vars
\* A recording is running and the last command has shown nothing and
\* suspended nothing: start_recording has been invoked during the recording.
C24_Witness ==
    /\ is_recording /\ dev.enc /\ blink_timer
    /\ app = "running" /\ stack = <<>> /\ shown = {}

\* C25: Apply promotes the draft and clears it: when a draft exists, after
\* apply_crop_from_rect the applied crop is the former draft and the draft is
\* None; when none exists the applied crop is unchanged.
C25_ApplyPromotesDraft ==
    [][apply_crop_from_rect
         => IF temp_drawn_rect # None
            THEN applied_crop_rect' = temp_drawn_rect /\ temp_drawn_rect' = None
            ELSE UNCHANGED <<applied_crop_rect, temp_drawn_rect>>]_vars
\* The draft from (1,1) to (11,11) has just been promoted; Apply is still
\* enabled, so that it can be pressed again with no draft.
C25_Witness ==
    /\ Shown("Cropping applied")
    /\ applied_crop_rect = QRectOf(QPoint(1, 1), QPoint(11, 11))
    /\ temp_drawn_rect = None
    /\ crop_apply_btn

\* C26: a tick of the preview timer has no effect on the session: every run of
\* update_preview, also one that is skipped or that raises inside, leaves the
\* rotation, the applied crop, the draft, mag_rect, the drag flags,
\* is_recording, the preview timer and the camera as they are, and no
\* exception leaves it.
C26_TickChangesNothing ==
    [][update_preview
         => /\ UNCHANGED <<rotation, applied_crop_rect, temp_drawn_rect, crop_apply_btn,
                           mag_rect, is_dragging, is_mag_dragging, drag_start,
                           drag_offset, is_recording, preview_timer, blink_timer,
                           picam, dev, fs, stack, is_preview_paused, pause_btn>>
            /\ app' = app]_vars
\* A frame has been drawn, and the timer is running on a camera that a capture
\* has stopped: the next tick raises inside.
C26_Witness ==
    /\ preview_timer /\ picam # "None" /\ ~dev.started
    /\ current_frame = "frame" /\ img = FullFrame

\* C27: for every rotation r of 0, 90, 180, 270 and every frame size, rotating
\* the frame by r (r/90 quarter turns, rows and columns exchanged on an odd
\* number) and then by (360 - r) mod 360 gives a frame of the original size;
\* and a +90 step followed by a -90 step of set_rotation_relative restores
\* the rotation.
C27_RotationAndInverseKeepSize ==
    LET shape == frame_shape(current_preview_resolution)
        inverse == mod(360 - rotation, 360)
        there == set_rotation_relative_body(Cur({}), 90)
        back == set_rotation_relative_body(there, 0 - 90)
    IN  /\ rot90_shape(rot90_shape(shape, quarter_turns(rotation)),
                       quarter_turns(inverse)) = shape
        /\ img_shape # None /\ applied_crop_rect = None
             => rot90_shape(img_shape, quarter_turns(mod(360 - 90 * img_k, 360))) = shape
        /\ back.rotation = rotation
\* A frame of 1920x1080 has been drawn a quarter turn round: 1920 rows, 1080 columns.
C27_Witness ==
    /\ rotation = 90 /\ img_k = 1
    /\ current_preview_resolution = <<1920, 1080>>
    /\ img_shape = <<1920, 1080>>

\* C28: is_recording tracks the device: whenever no handler is suspended,
\* is_recording is true exactly when the camera is in the video configuration
\* with the encoder running and writing the temporary file.
C28_IsRecordingTracksDevice ==
    (app = "running" /\ stack = <<>>)
      => (is_recording
            <=> (picam # "None" /\ dev.open /\ dev.cfg = "video" /\ dev.enc
                 /\ temp_video_path \in fs))

\* The AfMode of the item selected in the focus selector.
SelectedAfMode ==
    CASE focus_modes[focus_combo + 1] = "auto" -> "Auto"
      [] focus_modes[focus_combo + 1] = "continuous" -> "Continuous"
      [] focus_modes[focus_combo + 1] = "manual" -> "Manual"

\* C29: the autofocus mode in effect on the device is the mode selected in the
\* focus selector, whenever a camera is held and no handler is suspended; a
\* re-initialisation of the camera does not leave the device in Continuous
\* while the selector shows Auto or Manual.
C29_DeviceFocusModeIsSelected ==
    (app = "running" /\ stack = <<>> /\ picam # "None" /\ dev.open /\ dev.started)
      => dev.af = SelectedAfMode

\* C30: the pause state is kept and consistent: whenever no handler is
\* suspended and the camera is started in the preview configuration,
\* is_preview_paused is true exactly when the preview timer is inactive, and
\* exactly when the pause button reads "Resume Preview".
C30_PauseStateConsistent ==
    (app = "running" /\ stack = <<>> /\ picam # "None"
       /\ dev.open /\ dev.started /\ dev.cfg = "preview")
      => /\ is_preview_paused <=> ~preview_timer
         /\ is_preview_paused <=> (pause_btn = "Resume Preview")

============================================================================
